---- MODULE Spec2Model ----
(***************************************************************************)
(* Ext.ux.form.field.MeridiemTime: a text input holding a 12-hour time     *)
(* paired with an AM/PM dropdown.  The model covers the parsing,           *)
(* formatting, validation and meridiem synchronisation of the field.       *)
(*                                                                         *)
(* Text is a sequence of one-character strings.  A JavaScript value is a   *)
(* record whose field t says which kind of value it is.                    *)
(***************************************************************************)
EXTENDS Integers, Sequences, FiniteSets, TLC

VARIABLES
    me,         \* the field: its configuration and its properties
    today,      \* the calendar day of the wall clock
    clockHour,  \* the hour of the wall clock
    lastOp,     \* the handler that ran last
    arg,        \* the argument it was called with
    result,     \* what it returned
    fired       \* the payloads of the select events it fired

vars == <<me, today, clockHour, lastOp, arg, result, fired>>

(***************************************************************************)
(* Bounds of the model.                                                    *)
(***************************************************************************)
MaxDay == 1        \* the calendar advances from day 0 up to this day
MaxRawLen == 5     \* SpecParse: every text over Alphabet up to this length

(***************************************************************************)
(* JavaScript values.                                                      *)
(***************************************************************************)
JsValue(t, str, day, h, i, s) ==
    [t |-> t, str |-> str, day |-> day, h |-> h, i |-> i, s |-> s]

Null == JsValue("null", <<>>, 0, 0, 0, 0)
Undefined == JsValue("undefined", <<>>, 0, 0, 0, 0)
Str(chars) == JsValue("string", chars, 0, 0, 0, 0)
Date(day, h, i, s) == JsValue("date", <<>>, day, h, i, s)

isDate(v) == v.t = "date"
isString(v) == v.t = "string"
\* JavaScript truthiness: null, undefined and '' are falsy
Truthy(v) == isDate(v) \/ (isString(v) /\ v.str # <<>>)
\* Date.prototype.getTime, in seconds
getTime(d) == ((d.day * 24 + d.h) * 60 + d.i) * 60 + d.s

AM == Str(<<"A", "M">>)
PM == Str(<<"P", "M">>)

\* the text JavaScript concatenates for `string + v`
ToText(v) ==
    CASE isString(v) -> v.str
      [] v.t = "null" -> <<"n", "u", "l", "l">>
      [] OTHER -> <<"u", "n", "d", "e", "f", "i", "n", "e", "d">>

(***************************************************************************)
(* Ext.Date.parse and Ext.Date.format for the format codes the field uses: *)
(* h, g, i, s, A and literal characters.  A format is a sequence of codes. *)
(***************************************************************************)
DigitVal == [c \in {"0", "1", "2", "3", "4", "5", "6", "7", "8", "9"} |->
    CASE c = "0" -> 0 [] c = "1" -> 1 [] c = "2" -> 2 [] c = "3" -> 3
      [] c = "4" -> 4 [] c = "5" -> 5 [] c = "6" -> 6 [] c = "7" -> 7
      [] c = "8" -> 8 [] c = "9" -> 9]
IsDigit(c) == c \in DOMAIN DigitVal
DigitChar(n) == CHOOSE c \in DOMAIN DigitVal : DigitVal[c] = n
Pad2(n) == <<DigitChar(n \div 10), DigitChar(n % 10)>>
Drop(text, n) == SubSeq(text, n + 1, Len(text))

NoMatch == [ok |-> FALSE, h |-> -1, i |-> -1, s |-> -1, am |-> FALSE]
Unset == [ok |-> TRUE, h |-> -1, i |-> -1, s |-> -1, am |-> FALSE]

\* the regular expression Ext.Date builds from a format, applied to text:
\*   h (1[0-2]|0[1-9])   g (1[0-2]|[0-9])   i, s ([0-5][0-9])
\*   A (AM|PM|am|pm), case-insensitively; anything else is a literal
RECURSIVE Match(_, _, _)
Match(text, fmt, acc) ==
    IF fmt = <<>> THEN (IF text = <<>> THEN acc ELSE NoMatch)
    ELSE
      LET c == Head(fmt)
          rest == Tail(fmt)
          n == Len(text)
          two == DigitVal[text[1]] * 10 + DigitVal[text[2]]
      IN  CASE c = "h" ->
                 IF /\ n >= 2
                    /\ \/ text[1] = "1" /\ text[2] \in {"0", "1", "2"}
                       \/ text[1] = "0" /\ IsDigit(text[2]) /\ text[2] # "0"
                 THEN Match(Drop(text, 2), rest, [acc EXCEPT !.h = two])
                 ELSE NoMatch
            [] c = "g" ->
                 LET long == IF n >= 2 /\ text[1] = "1" /\ text[2] \in {"0", "1", "2"}
                             THEN Match(Drop(text, 2), rest, [acc EXCEPT !.h = two])
                             ELSE NoMatch
                 IN  IF long.ok THEN long
                     ELSE IF n >= 1 /\ IsDigit(text[1])
                          THEN Match(Drop(text, 1), rest,
                                     [acc EXCEPT !.h = DigitVal[text[1]]])
                          ELSE NoMatch
            [] c = "i" ->
                 IF n >= 2 /\ text[1] \in {"0", "1", "2", "3", "4", "5"} /\ IsDigit(text[2])
                 THEN Match(Drop(text, 2), rest, [acc EXCEPT !.i = two])
                 ELSE NoMatch
            [] c = "s" ->
                 IF n >= 2 /\ text[1] \in {"0", "1", "2", "3", "4", "5"} /\ IsDigit(text[2])
                 THEN Match(Drop(text, 2), rest, [acc EXCEPT !.s = two])
                 ELSE NoMatch
            [] c = "A" ->
                 IF n >= 2 /\ text[1] \in {"A", "a", "P", "p"} /\ text[2] \in {"M", "m"}
                 THEN Match(Drop(text, 2), rest,
                            [acc EXCEPT !.am = text[1] \in {"A", "a"}])
                 ELSE NoMatch
            [] OTHER ->
                 IF n >= 1 /\ text[1] = c
                 THEN Match(Drop(text, 1), rest, acc)
                 ELSE NoMatch

\* the hour after the meridiem code has been applied (calcAtEnd)
MeridiemHour(h, am) ==
    IF am THEN (IF h \in {-1, 0, 12} THEN 0 ELSE h)
    ELSE (IF h \in {-1, 0} THEN 12 ELSE IF h < 12 THEN h + 12 ELSE h)

\* the date Ext.Date.parse builds from a match: the current day, with the
\* hour, and minute and second 0 unless the format captured them
MatchedDate(m) ==
    IF ~m.ok THEN Null
    ELSE Date(today, MeridiemHour(m.h, m.am),
              IF m.i = -1 THEN 0 ELSE m.i,
              IF m.s = -1 THEN 0 ELSE m.s)

\* Ext.Date.parse(input, format): a date on the current day, or null
ExtDateParse(input, fmt) == MatchedDate(Match(input, fmt, Unset))

Hour12(h) == IF h % 12 = 0 THEN 12 ELSE h % 12

RECURSIVE FormatCodes(_, _)
FormatCodes(d, fmt) ==
    IF fmt = <<>> THEN <<>>
    ELSE LET c == Head(fmt)
             out == CASE c = "h" -> Pad2(Hour12(d.h))
                      [] c = "i" -> Pad2(d.i)
                      [] c = "s" -> Pad2(d.s)
                      [] c = "A" -> (IF d.h < 12 THEN <<"A", "M">> ELSE <<"P", "M">>)
                      [] OTHER -> <<c>>
         IN  out \o FormatCodes(d, Tail(fmt))

\* Ext.Date.format(date, format): '' when the value is no date
ExtDateFormat(d, fmt) == IF isDate(d) THEN FormatCodes(d, fmt) ELSE <<>>

(***************************************************************************)
(* The field.  me is the record of its properties:                         *)
(*   format, altFormats, captureSeconds, maxLength   configuration         *)
(*   minValue, maxValue                              the bounds            *)
(*   rawValue        the text of the input element (no meridiem)           *)
(*   meridiemValue   the meridiem shown in the dropdown cell               *)
(*   value           the value property the framework caches               *)
(*   suspendCheckChange   the framework's change-detection latch           *)
(***************************************************************************)
format == <<"h", ":", "i", "A">>
captureSecondsFormat == <<"h", ":", "i", ":", "s", "A">>
\* 'h:iA|hiA|g:iA|giA|hA|gA', split at '|'
altFormats ==
    << <<"h", ":", "i", "A">>, <<"h", "i", "A">>, <<"g", ":", "i", "A">>,
       <<"g", "i", "A">>, <<"h", "A">>, <<"g", "A">> >>
\* '|h:i:sA|hi:sA|h:isA|gisA|hisA|g:i:sA|gi:sA|g:isA', split at '|'
captureSecondsAltFormats ==
    << <<"h", ":", "i", ":", "s", "A">>, <<"h", "i", ":", "s", "A">>,
       <<"h", ":", "i", "s", "A">>, <<"g", "i", "s", "A">>,
       <<"h", "i", "s", "A">>, <<"g", ":", "i", ":", "s", "A">>,
       <<"g", "i", ":", "s", "A">>, <<"g", ":", "i", "s", "A">> >>

Err(kind, text) == [kind |-> kind, text |-> text]

clearDate(m, date) ==
    IF isDate(date)
    THEN [date EXCEPT !.day = today,
                      !.s = IF m.captureSeconds THEN @ ELSE 0]
    ELSE date

\* parsedDate ? this.clearDate(parsedDate) : null
clearedOrNull(m, parsedDate) ==
    IF Truthy(parsedDate) THEN clearDate(m, parsedDate) ELSE Null

safeParse(m, value, fmt) == clearedOrNull(m, ExtDateParse(value, fmt))

\* the loop with `!parsedValue` missing from its condition: every fallback
\* format is tried and the last one decides
RECURSIVE altFormatsLoop_NoStop(_, _, _, _)
altFormatsLoop_NoStop(m, text, i, parsedValue) ==
    IF i <= Len(m.altFormats)
    THEN altFormatsLoop_NoStop(m, text, i + 1, safeParse(m, text, m.altFormats[i]))
    ELSE parsedValue

\* the loop over altFormatsArray, entered with the result of the primary
\* format: it runs while nothing has parsed and stops at the first format
\* that parses
RECURSIVE altFormatsLoop(_, _, _, _)
altFormatsLoop(m, text, i, parsedValue) ==
    IF i <= Len(m.altFormats) /\ ~Truthy(parsedValue)
    THEN altFormatsLoop(m, text, i + 1, safeParse(m, text, m.altFormats[i]))
    ELSE parsedValue

\* the else branch of parseDate: text is value + meridiem
parseText(m, text) ==
    IF m.altFormats # <<>>
    THEN altFormatsLoop(m, text, 1, safeParse(m, text, m.format))
    ELSE safeParse(m, text, m.format)

parseDate(m, value) ==
    IF ~Truthy(value) \/ isDate(value) THEN value
    ELSE parseText(m, value.str \o ToText(m.meridiemValue))

formatDate(m, date) ==
    IF isDate(date) THEN Str(ExtDateFormat(date, m.format)) ELSE date

\* a || b || null
OrOrNull(a, b) == IF Truthy(a) THEN a ELSE IF Truthy(b) THEN b ELSE Null

\* rawToValue without `|| rawValue`: null for a text that does not parse
rawToValue_NullOnFailure(m, rawValue) == OrOrNull(parseDate(m, rawValue), Null)

rawToValue(m, rawValue) == OrOrNull(parseDate(m, rawValue), rawValue)

valueToRaw(m, value) == formatDate(m, parseDate(m, value))

\* Ext.form.field.Base: the text of the input element, and the value read
\* from it (processRawValue changes nothing: no stripCharsRe is configured)
getRawValue(m) == Str(m.rawValue)
getValue(m) == rawToValue(m, getRawValue(m))
\* getValue also stores what it returns in me.value
afterGetValue(m) == [m EXCEPT !.value = getValue(m)]

\* Ext.form.field.Base.setRawValue: Ext.value(value, '') into the input
setRawValue(m, value) ==
    [m EXCEPT !.rawValue = IF Truthy(value) /\ isString(value) THEN value.str ELSE <<>>]

\* Ext.form.field.Field.setValue: me.value = value; checkChange(), which
\* reads getValue() unless change detection is suspended
fieldSetValue(m, value) ==
    IF m.suspendCheckChange > 0 THEN [m EXCEPT !.value = value]
    ELSE afterGetValue([m EXCEPT !.value = value])

setMeridiemValue(m, value) == [m EXCEPT !.meridiemValue = value]

\* rawValue.replace(/(AM|PM)$/i, '')
StripMeridiem(text) ==
    IF /\ Len(text) >= 2
       /\ text[Len(text) - 1] \in {"A", "a", "P", "p"}
       /\ text[Len(text)] \in {"M", "m"}
    THEN SubSeq(text, 1, Len(text) - 2) ELSE text
\* rawValue.substring(rawValue.length - 2)
LastTwo(text) ==
    IF Len(text) <= 2 THEN text ELSE SubSeq(text, Len(text) - 1, Len(text))

\* setValue, second part: the time goes to the input and to the value, the
\* meridiem (if there is one) to the dropdown cell
setTimeAndMeridiem(m, time, meridiem) ==
    IF Truthy(meridiem)
    THEN setMeridiemValue(fieldSetValue(setRawValue(m, time), time), meridiem)
    ELSE fieldSetValue(setRawValue(m, time), time)

\* the split that leaves the meridiem in the text it writes to the input
splitRawValue_KeepsMeridiem(m, rawValue) ==
    IF isString(rawValue)
    THEN setTimeAndMeridiem(m, rawValue, Str(LastTwo(rawValue.str)))
    ELSE setTimeAndMeridiem(m, Undefined, Undefined)

\* setValue, first part: a string rawValue is split into time and meridiem
splitRawValue(m, rawValue) ==
    IF isString(rawValue)
    THEN setTimeAndMeridiem(m, Str(StripMeridiem(rawValue.str)),
                            Str(LastTwo(rawValue.str)))
    ELSE setTimeAndMeridiem(m, Undefined, Undefined)

\* setValue, last part: without a meridiem, the wall clock decides
defaultMeridiem(m) ==
    IF ~Truthy(m.meridiemValue)
    THEN [m EXCEPT !.meridiemValue = IF clockHour >= 12 THEN PM ELSE AM]
    ELSE m

\* setValue without the default of the meridiem from the wall clock
setValue_NoDefault(m, value) == splitRawValue(m, valueToRaw(m, value))

setValue(m, value) == defaultMeridiem(splitRawValue(m, valueToRaw(m, value)))

\* value ? Ext.Date.format(value, format) : ''
formatOrEmpty(m, value) ==
    IF Truthy(value) THEN Str(ExtDateFormat(value, m.format)) ELSE Str(<<>>)

getSubmitValue(m) == formatOrEmpty(m, getValue(m))

setMinValue(m, value) ==
    [m EXCEPT !.minValue = IF isString(value) THEN parseDate(m, value) ELSE value]

setMaxValue(m, value) ==
    [m EXCEPT !.maxValue = IF isString(value) THEN parseDate(m, value) ELSE value]

\* value || me.processRawValue(me.getRawValue())
valueOrRaw(m, value) == IF Truthy(value) THEN value ELSE getRawValue(m)

\* Ext.form.field.Text.getErrors: of its checks only maxLength can fail
\* here (allowBlank is true; no validator, minLength, vtype or regex)
textGetErrors(m, value) ==
    IF /\ isString(valueOrRaw(m, value))
       /\ Len(valueOrRaw(m, value).str) > m.maxLength
    THEN <<Err("maxLengthText", <<>>)>>
    ELSE <<>>

\* getErrors, the minimum and the maximum check of a parsed time
minErrors(m, time) ==
    IF Truthy(m.minValue) /\ time < getTime(m.minValue)
    THEN <<Err("minText", formatDate(m, m.minValue).str)>> ELSE <<>>
maxErrors(m, time) ==
    IF Truthy(m.maxValue) /\ time > getTime(m.maxValue)
    THEN <<Err("maxText", formatDate(m, m.maxValue).str)>> ELSE <<>>

\* the checks that return as soon as the minimum check has failed
checkParsed_StopAtMin(m, errors, formattedValue, parsedValue) ==
    IF ~Truthy(parsedValue)
    THEN Append(errors, Err("invalidText",
            formattedValue.str \o <<" ">> \o ToText(m.meridiemValue)))
    ELSE IF minErrors(m, getTime(parsedValue)) # <<>>
         THEN errors \o minErrors(m, getTime(parsedValue))
         ELSE errors \o maxErrors(m, getTime(parsedValue))

\* getErrors, from the re-parse of the formatted value on
checkParsed(m, errors, formattedValue, parsedValue) ==
    IF ~Truthy(parsedValue)
    THEN Append(errors, Err("invalidText",
            formattedValue.str \o <<" ">> \o ToText(m.meridiemValue)))
    ELSE errors \o minErrors(m, getTime(parsedValue))
                \o maxErrors(m, getTime(parsedValue))

\* getErrors, from the formatted value on
checkFormatted(m, errors, formattedValue) ==
    IF formattedValue = Null \/ Len(formattedValue.str) < 1 THEN errors
    ELSE checkParsed(m, errors, formattedValue, parseDate(m, formattedValue))

getErrors(m, value) ==
    checkFormatted(m, textGetErrors(m, value), formatDate(m, valueOrRaw(m, value)))

\* onSelect, the recomputed value set and notified: the field and the
\* select events fired
setAndFire(m, newValue) == [me |-> setValue(m, newValue), fired |-> <<newValue>>]

\* the rest of onSelect without `if (value)`: it sets and fires always
selectValue_AlwaysFires(m, value, meridiem) ==
    setAndFire(m, ExtDateParse(
                      ExtDateFormat(value, <<"h", "i", "s">>) \o ToText(meridiem),
                      <<"h", "i", "s", "A">>))

\* onSelect after setMeridiemValue: value is what getValue returned
selectValue(m, value, meridiem) ==
    IF Truthy(value)
    THEN setAndFire(m, ExtDateParse(
                           ExtDateFormat(value, <<"h", "i", "s">>) \o ToText(meridiem),
                           <<"h", "i", "s", "A">>))
    ELSE [me |-> m, fired |-> <<>>]

\* onSelect that recomputes the value with the meridiem the field had
onSelect_OldMeridiem(m, meridiem) ==
    selectValue(setMeridiemValue(afterGetValue(m), meridiem), getValue(m),
                m.meridiemValue)

onSelect(m, meridiem) ==
    selectValue(setMeridiemValue(afterGetValue(m), meridiem), getValue(m), meridiem)

\* if (value) { me.setValue(value); }
setIfTruthy(m, value) == IF Truthy(value) THEN setValue(m, value) ELSE m

beforeBlur(m) == setIfTruthy(m, parseDate(m, getRawValue(m)))

transformOriginalValue(m, value) == clearDate(m, value)

\* me.setValue(me.value)
setOwnValue(m) == setValue(m, m.value)

\* Ext.form.field.Field.initValue: the original value is transformed and
\* set with change detection suspended
fieldInitValue(m) ==
    [setOwnValue([m EXCEPT !.value = transformOriginalValue(m, m.value),
                           !.suspendCheckChange = @ + 1])
        EXCEPT !.suspendCheckChange = @ - 1]

initValue(m) ==
    fieldInitValue(IF isString(m.value)
                   THEN [m EXCEPT !.value = rawToValue(m, m.value)]
                   ELSE m)

\* initComponent, first part: bounds given as strings are parsed
fixBounds(m) ==
    [m EXCEPT !.minValue = IF isString(@) THEN parseDate(m, @) ELSE @,
              !.maxValue = IF isString(@) THEN parseDate(m, @) ELSE @]

\* initComponent, second part: the configuration follows captureSeconds
applyCaptureSeconds(m) ==
    IF m.captureSeconds
    THEN [m EXCEPT !.format = captureSecondsFormat,
                   !.altFormats = @ \o captureSecondsAltFormats,
                   !.maxLength = 8]
    ELSE [m EXCEPT !.maxLength = 5]

\* initComponent; its callParent reaches initField and so initValue
initComponent(m) == initValue(applyCaptureSeconds(fixBounds(m)))

(***************************************************************************)
(* Inputs.                                                                 *)
(***************************************************************************)
\* the hours the wall clock is read at
ClockHours == {11, 12}
Days == 0 .. MaxDay
\* the date objects handed in: 01:10:00 on every day, 13:10:30 on day 0
DateInputs == {Date(d, 1, 10, 0) : d \in Days} \cup {Date(0, 13, 10, 30)}
\* texts typed into the input element
TypedTexts ==
    { <<>>,
      <<"0", "1", ":", "1", "0">>,                  \* h:iA
      <<"1", ":", "1", "0">>,                       \* g:iA
      <<"1", "2">>,                                 \* hA
      <<"1", "6", ":", "0", "0">>,                  \* no format
      <<"0", "1", ":", "1", "0", ":", "3", "0">> }  \* h:i:sA
\* time strings handed in as bounds or values
StringInputs ==
    { Str(<<"0", "1", ":", "1", "0">>),
      Str(<<"0", "1", ":", "1", "0", "A", "M">>) }
Meridiems == {AM, PM}
\* what getErrors is called with: nothing (the text of the input), or a date
Candidates == {Undefined, Date(0, 13, 10, 30)}

\* every text over Alphabet of at most MaxRawLen characters, one text for
\* each of the formats that capture seconds, and minutes and seconds out of
\* range
Alphabet == {"0", "1", "2", ":"}
ShortTexts == UNION {[1 .. n -> Alphabet] : n \in 0 .. MaxRawLen}
SecondsTexts ==
    { <<"0", "1", ":", "1", "0", ":", "3", "0">>,   \* h:i:sA
      <<"0", "1", "1", "0", ":", "3", "0">>,        \* hi:sA
      <<"0", "1", ":", "1", "0", "3", "0">>,        \* h:isA
      <<"1", "1", "0", "3", "0">>,                  \* gisA
      <<"0", "1", "1", "0", "3", "0">>,             \* hisA
      <<"1", ":", "1", "0", ":", "3", "0">>,        \* g:i:sA
      <<"1", "1", "0", ":", "3", "0">>,             \* gi:sA
      <<"1", ":", "1", "0", "3", "0">>,             \* g:isA
      <<"0", "1", ":", "6", "0">>,                  \* no format
      <<"0", "1", ":", "1", "0", ":", "6", "0">> }  \* no format
AllTexts == ShortTexts \cup SecondsTexts

\* the field as configured, before initComponent: with the given bounds
\* and initial values
ConfigOf(bounds, values) ==
    [format : {format}, altFormats : {altFormats}, captureSeconds : BOOLEAN,
     maxLength : {0}, minValue : bounds, maxValue : bounds, value : values,
     rawValue : {<<>>}, meridiemValue : {Undefined}, suspendCheckChange : {0}]

(***************************************************************************)
(* The state machine: the field is configured (Init), constructed          *)
(* (InitComponent), and then driven by the user and the application.       *)
(***************************************************************************)
Ran(op, a, r, f) ==
    /\ lastOp' = op
    /\ arg' = a
    /\ result' = r
    /\ fired' = f

InitOf(fields) ==
    /\ me \in fields
    /\ today = 0
    /\ clockHour \in ClockHours
    /\ lastOp = "config"
    /\ arg = Null
    /\ result = Null
    /\ fired = <<>>

Constructed == lastOp # "config"

InitComponent ==
    /\ lastOp = "config"
    /\ me' = initComponent(me)
    /\ Ran("initComponent", Null, Null, <<>>)
    /\ UNCHANGED <<today, clockHour>>

\* the user edits the text of the input element; the framework's change
\* detection then reads the value
TypeText ==
    /\ Constructed
    /\ \E text \in TypedTexts :
         /\ me' = afterGetValue([me EXCEPT !.rawValue = text])
         /\ Ran("type", Str(text), Null, <<>>)
    /\ UNCHANGED <<today, clockHour>>

SetValue ==
    /\ Constructed
    /\ \E value \in {Null} \cup StringInputs \cup DateInputs \cup {getValue(me)} :
         /\ me' = setValue(me, value)
         /\ Ran("setValue", value, Null, <<>>)
    /\ UNCHANGED <<today, clockHour>>

SetMinValue ==
    /\ Constructed
    /\ \E value \in {Null} \cup StringInputs \cup DateInputs :
         /\ me' = setMinValue(me, value)
         /\ Ran("setMinValue", value, Null, <<>>)
    /\ UNCHANGED <<today, clockHour>>

SetMaxValue ==
    /\ Constructed
    /\ \E value \in {Null} \cup StringInputs \cup DateInputs :
         /\ me' = setMaxValue(me, value)
         /\ Ran("setMaxValue", value, Null, <<>>)
    /\ UNCHANGED <<today, clockHour>>

GetErrors ==
    /\ Constructed
    /\ \E value \in Candidates :
         Ran("getErrors", value, getErrors(me, value), <<>>)
    /\ UNCHANGED <<me, today, clockHour>>

GetSubmitValue ==
    /\ Constructed
    /\ me' = afterGetValue(me)
    /\ Ran("getSubmitValue", Null, getSubmitValue(me), <<>>)
    /\ UNCHANGED <<today, clockHour>>

ParseDate ==
    /\ Constructed
    /\ Ran("parseDate", getRawValue(me), parseDate(me, getRawValue(me)), <<>>)
    /\ UNCHANGED <<me, today, clockHour>>

OnSelect ==
    /\ Constructed
    /\ \E meridiem \in Meridiems :
         /\ me' = onSelect(me, meridiem).me
         /\ Ran("onSelect", meridiem, Null, onSelect(me, meridiem).fired)
    /\ UNCHANGED <<today, clockHour>>

BeforeBlur ==
    /\ Constructed
    /\ me' = beforeBlur(me)
    /\ Ran("beforeBlur", Null, Null, <<>>)
    /\ UNCHANGED <<today, clockHour>>

\* the wall clock passes midnight
Midnight ==
    /\ today < MaxDay
    /\ today' = today + 1
    /\ clockHour' = 0
    /\ Ran(IF Constructed THEN "midnight" ELSE "config", Null, Null, <<>>)
    /\ UNCHANGED me

\* Spec: a field without bounds, driven through its value operations
Init == InitOf(ConfigOf({Undefined}, {Undefined} \cup StringInputs \cup DateInputs))

Next ==
    \/ InitComponent
    \/ TypeText
    \/ SetValue
    \/ GetErrors
    \/ GetSubmitValue
    \/ OnSelect
    \/ BeforeBlur
    \/ Midnight

Spec == Init /\ [][Next]_vars

\* SpecBounds: a field with bounds, validated
InitBounds ==
    InitOf(ConfigOf({Undefined} \cup StringInputs \cup DateInputs, {Undefined}))

NextBounds ==
    \/ InitComponent
    \/ TypeText
    \/ SetMinValue
    \/ SetMaxValue
    \/ GetErrors
    \/ ParseDate
    \/ OnSelect
    \/ Midnight

SpecBounds == InitBounds /\ [][NextBounds]_vars

\* SpecParse: a constructed field holding any text and either meridiem,
\* parsed and written back (the wall clock is not read once the meridiem
\* is set)
InitParse ==
    /\ today = 0
    /\ clockHour = 12
    /\ \E cfg \in ConfigOf({Undefined}, {Undefined}) :
       \E text \in AllTexts :
       \E meridiem \in Meridiems :
         me = afterGetValue([initComponent(cfg) EXCEPT !.rawValue = text,
                                                       !.meridiemValue = meridiem])
    /\ lastOp = "type"
    /\ arg = Null
    /\ result = Null
    /\ fired = <<>>

NextParse ==
    \/ ParseDate
    \/ SetValue
    \/ BeforeBlur

SpecParse == InitParse /\ [][NextParse]_vars

(***************************************************************************)
(* Properties.                                                             *)
(***************************************************************************)
\* the time of day of a date, in seconds
TimeOfDay(d) == (d.h * 60 + d.i) * 60 + d.s
MeridiemOf(d) == IF d.h < 12 THEN AM ELSE PM
Count(errors, kind) == Cardinality({k \in 1 .. Len(errors) : errors[k].kind = kind})
\* the primary format followed by the fallback formats
Formats(m) == <<m.format>> \o m.altFormats
\* the formats that parse text
Parsing(m, text) ==
    {k \in 1 .. Len(Formats(m)) : isDate(ExtDateParse(text, Formats(m)[k]))}
Unparsed(m) == ~Truthy(parseDate(m, getRawValue(m)))

\* C1: parseDate of a non-empty text r under the meridiem m is the parse of
\* r followed by m by the first of the formats (the primary one, then the
\* fallbacks in list order) that parses it, and null when none does.
C1_FirstFormatWins ==
    (lastOp = "parseDate" /\ Truthy(arg)) =>
        LET text == arg.str \o ToText(me.meridiemValue)
            ok == Parsing(me, text)
            first == CHOOSE k \in ok : \A j \in ok : k <= j
        IN  IF ok = {} THEN result = Null
            ELSE result = safeParse(me, text, Formats(me)[first])

\* a text parsed by a fallback format that is not the first fallback to be
\* tried, and that a later fallback parses too
C1_Witness ==
    /\ lastOp = "parseDate"
    /\ isDate(result)
    /\ LET ok == Parsing(me, arg.str \o ToText(me.meridiemValue))
       IN  /\ 1 \notin ok
           /\ 2 \notin ok
           /\ Cardinality(ok) >= 2

\* C2: getErrors holds the before-minimum message exactly when the time of
\* day of the candidate (the text of the input under the current meridiem,
\* or a date) is earlier than that of minValue, and the after-maximum
\* message exactly when it is later than that of maxValue.
C2_BoundErrorsByTimeOfDay ==
    (lastOp = "getErrors") =>
        LET candidate == IF isDate(arg) THEN arg ELSE parseDate(me, getRawValue(me))
        IN  isDate(candidate) =>
              /\ Count(result, "minText") >= 1 <=>
                   (isDate(me.minValue)
                      /\ TimeOfDay(candidate) < TimeOfDay(me.minValue))
              /\ Count(result, "maxText") >= 1 <=>
                   (isDate(me.maxValue)
                      /\ TimeOfDay(candidate) > TimeOfDay(me.maxValue))

\* C3: a selection of AM or PM on a field holding a valid time keeps the
\* 12-hour hour, the minute, the second and the day of the value, makes
\* its meridiem the selected one, and makes the current meridiem the
\* selected one.
C3_SelectKeepsTime ==
    [][(lastOp' = "onSelect" /\ isDate(getValue(me))) =>
         LET old == getValue(me)
             new == getValue(me')
         IN  /\ isDate(new)
             /\ Hour12(new.h) = Hour12(old.h)
             /\ new.i = old.i
             /\ new.s = old.s
             /\ new.day = old.day
             /\ MeridiemOf(new) = arg'
             /\ me'.meridiemValue = arg']_vars

\* PM selected on a field that captures seconds and holds them
C3_Witness ==
    /\ lastOp = "onSelect"
    /\ arg = PM
    /\ Len(fired) = 1
    /\ isDate(fired[1])
    /\ isDate(getValue(me))
    /\ getValue(me).s # 0

\* C4: every date that parseDate returns, and every date held as minValue
\* or maxValue, is on the current day.
C4_DatesAreToday ==
    Constructed =>
        /\ isDate(me.minValue) => me.minValue.day = today
        /\ isDate(me.maxValue) => me.maxValue.day = today
        /\ (lastOp = "parseDate" /\ isDate(result)) => result.day = today

\* C5 as stated: when the text parses under no format, the value of the
\* field is null.
C5_UnparsedValueIsNull ==
    (Constructed /\ Unparsed(me)) => getValue(me) = Null

\* C5 as amended: when the text parses under no format, the value of the
\* field is that text (null when it is empty); getSubmitValue returns the
\* empty string, beforeBlur changes nothing, onSelect empties the text and
\* notifies null (nothing on an empty text), and getErrors reports a
\* non-empty text with one invalid-format error.
C5_UnparsedValueIsText ==
    /\ [](Constructed /\ Unparsed(me) =>
            getValue(me) = IF me.rawValue = <<>> THEN Null ELSE Str(me.rawValue))
    /\ [][(Constructed /\ Unparsed(me)) =>
            /\ lastOp' = "getSubmitValue" => result' = Str(<<>>)
            /\ lastOp' = "beforeBlur" => me' = me
            /\ lastOp' = "onSelect" =>
                 /\ me'.rawValue = <<>>
                 /\ fired' = IF me.rawValue = <<>> THEN <<>> ELSE <<Null>>
            /\ (lastOp' = "getErrors" /\ arg' = Undefined /\ me.rawValue # <<>>) =>
                 Count(result', "invalidText") = 1]_vars

\* getErrors has reported a text that parses under no format
C5_Witness ==
    /\ lastOp = "getErrors"
    /\ arg = Undefined
    /\ Unparsed(me)
    /\ me.rawValue # <<>>
    /\ getValue(me) = Str(me.rawValue)
    /\ Count(result, "invalidText") = 1

\* C6: when the re-parse of the formatted candidate fails, getErrors adds
\* one invalid-format error and no bound error; when it succeeds, it adds
\* no invalid-format error, the before-minimum error exactly when the
\* parsed time is before minValue and the after-maximum error exactly when
\* it is after maxValue, each whatever the other check says.  (An empty
\* text is not re-parsed.)
C6_ErrorsAccumulate ==
    (lastOp = "getErrors") =>
        LET formattedValue == formatDate(me, IF Truthy(arg) THEN arg ELSE getRawValue(me))
            parsedValue == parseDate(me, formattedValue)
        IN  formattedValue.str # <<>> =>
              IF ~isDate(parsedValue)
              THEN /\ Count(result, "invalidText") = 1
                   /\ Count(result, "minText") = 0
                   /\ Count(result, "maxText") = 0
              ELSE /\ Count(result, "invalidText") = 0
                   /\ Count(result, "minText") =
                        IF isDate(me.minValue) /\ getTime(parsedValue) < getTime(me.minValue)
                        THEN 1 ELSE 0
                   /\ Count(result, "maxText") =
                        IF isDate(me.maxValue) /\ getTime(parsedValue) > getTime(me.maxValue)
                        THEN 1 ELSE 0

\* both bound errors returned together
C6_Witness ==
    /\ lastOp = "getErrors"
    /\ Count(result, "minText") = 1
    /\ Count(result, "maxText") = 1

\* C7: a minValue or maxValue given as a time string, in the configuration
\* or through setMinValue/setMaxValue, becomes a date.
C7_StringBoundBecomesDate ==
    [][/\ (lastOp' = "initComponent" /\ isString(me.minValue)) => isDate(me'.minValue)
       /\ (lastOp' = "initComponent" /\ isString(me.maxValue)) => isDate(me'.maxValue)
       /\ (lastOp' = "setMinValue" /\ isString(arg')) => isDate(me'.minValue)
       /\ (lastOp' = "setMaxValue" /\ isString(arg')) => isDate(me'.maxValue)]_vars

\* C8 as stated: every selection fires one select event carrying a date.
C8_EverySelectionNotifies ==
    (lastOp = "onSelect") => (Len(fired) = 1 /\ isDate(fired[1]))

\* C8 as amended: a selection on a field holding a valid time fires one
\* select event carrying the recomputed value; a selection on an empty
\* field fires none; a selection on a text that parses under no format
\* fires one carrying null.
C8_SelectionNotifiesByText ==
    [][(lastOp' = "onSelect") =>
         IF isDate(getValue(me))
         THEN /\ Len(fired') = 1
              /\ isDate(fired'[1])
              /\ fired'[1] = getValue(me')
         ELSE IF me.rawValue = <<>> THEN fired' = <<>>
         ELSE fired' = <<Null>>]_vars

\* a selection on a valid time has fired its event
C8_Witness ==
    /\ lastOp = "onSelect"
    /\ Len(fired) = 1
    /\ isDate(fired[1])
    /\ fired[1] = getValue(me)
    /\ MeridiemOf(fired[1]) = arg

\* the text formatDate gives the value of the field, meridiem removed
Canonical(m) == StripMeridiem(formatDate(m, getValue(m)).str)

\* C9 as stated: setValue applied to the current valid value of the field
\* leaves the text, the meridiem and the value unchanged.
C9_SetValueKeepsText ==
    [][(lastOp' = "setValue" /\ isDate(getValue(me)) /\ arg' = getValue(me)) =>
         /\ me'.rawValue = me.rawValue
         /\ me'.meridiemValue = me.meridiemValue
         /\ getValue(me') = getValue(me)]_vars

\* C9 as amended: the formatted value of a text that parses ends in the
\* current meridiem, and its canonical text parses to the same value; so
\* setValue applied to the current valid value leaves the meridiem and
\* the value unchanged and makes the text canonical, and beforeBlur on a
\* canonical text leaves text, meridiem and value unchanged.
C9_RoundTrip ==
    /\ [](isDate(getValue(me)) =>
            /\ formatDate(me, getValue(me)).str = Canonical(me) \o me.meridiemValue.str
            /\ parseDate(me, Str(Canonical(me))) = getValue(me))
    /\ [][isDate(getValue(me)) =>
            /\ (lastOp' = "setValue" /\ arg' = getValue(me)) =>
                 /\ me'.rawValue = Canonical(me)
                 /\ me'.meridiemValue = me.meridiemValue
                 /\ getValue(me') = getValue(me)
            /\ (lastOp' = "beforeBlur" /\ me.rawValue = Canonical(me)) =>
                 /\ me'.rawValue = me.rawValue
                 /\ me'.meridiemValue = me.meridiemValue
                 /\ getValue(me') = getValue(me)]_vars

\* the current value, read from a text a fallback format parsed, set back
C9_Witness ==
    /\ lastOp = "setValue"
    /\ isDate(getValue(me))
    /\ arg = getValue(me)
    /\ me.rawValue = Canonical(me)
    /\ me.captureSeconds
    /\ getValue(me).h = 12

\* C10: once constructed, the current meridiem is AM or PM and agrees with
\* the value of the field when that is a valid time.  A setValue makes it
\* the meridiem of the value set when that is a valid time and keeps it
\* otherwise; the first setValue, of construction, makes it PM from hour
\* 12 of the wall clock on and AM before when no valid time is set.
C10_MeridiemAlwaysSet ==
    /\ [](Constructed =>
            /\ me.meridiemValue \in Meridiems
            /\ isDate(getValue(me)) => MeridiemOf(getValue(me)) = me.meridiemValue)
    /\ [][/\ (lastOp' = "setValue") =>
               me'.meridiemValue =
                 IF isDate(parseDate(me, arg')) THEN MeridiemOf(parseDate(me, arg'))
                 ELSE me.meridiemValue
          /\ (lastOp' = "initComponent") =>
               me'.meridiemValue =
                 IF isDate(me.value) THEN MeridiemOf(me.value)
                 ELSE IF clockHour >= 12 THEN PM ELSE AM]_vars

\* constructed without a value at noon: PM
C10_Witness ==
    /\ lastOp = "initComponent"
    /\ me.rawValue = <<>>
    /\ clockHour = 12
    /\ me.meridiemValue = PM

====
